---- MODULE Spec2Model ----
(***************************************************************************)
(* A model of the chess backend (src/c/chess.c, src/c/chess.h) and of the  *)
(* read-and-dispatch loop that drives it (src/c/main.c).                   *)
(*                                                                         *)
(* A square is a struct position [rank, file]; as in the source, "rank"    *)
(* is the letter a..h and "file" the digit 1..8, both mapped to 0..7, and  *)
(* the board is indexed board[rank][file].  A piece type is the character  *)
(* of enum piece_type ("P", "N", "B", "R", "Q", "K").  A token is the      *)
(* sequence of the characters of the C string, without its terminator.     *)
(***************************************************************************)
EXTENDS Integers, Sequences, FiniteSets

VARIABLES board, white_turn, en_passant, last, calls, accepted, relocated

vars == <<board, white_turn, en_passant, last, calls, accepted, relocated>>

(***************************************************************************)
(* Program constants and value domains.                                    *)
(***************************************************************************)
BOARD_RANKS == 8

BOARD_FILES == 8

Ranks == 0 .. (BOARD_RANKS - 1)

Files == 0 .. (BOARD_FILES - 1)

PIECE_PAWN == "P"

PIECE_KNIGHT == "N"

PIECE_BISHOP == "B"

PIECE_ROOK == "R"

PIECE_QUEEN == "Q"

PIECE_KING == "K"

PieceTypes ==
    {PIECE_PAWN, PIECE_KNIGHT, PIECE_BISHOP, PIECE_ROOK, PIECE_QUEEN, PIECE_KING}

\* The null pointer of a board cell (and of en_passant).
NULL == [type |-> "NULL", is_white |-> FALSE, has_moved |-> FALSE]

piece_new(type, is_white) ==
    [type |-> type, is_white |-> is_white, has_moved |-> FALSE]

Pos(r, f) == [rank |-> r, file |-> f]

Squares == {Pos(r, f) : r \in Ranks, f \in Files}

\* abs() of <stdlib.h>.
abs(x) == IF x < 0 THEN -x ELSE x

(***************************************************************************)
(* game_new.  malloc does not clear the struct and game_new writes only    *)
(* the cells of files 0, 1, 6 and 7, en_passant and white_turn: the other  *)
(* 32 cells keep what the block held.  mem is that content.                *)
(***************************************************************************)
BackRank == <<PIECE_ROOK, PIECE_KNIGHT, PIECE_BISHOP, PIECE_QUEEN,
              PIECE_KING, PIECE_BISHOP, PIECE_KNIGHT, PIECE_ROOK>>

game_new(mem) ==
    [board |->
        [r \in Ranks |->
            [f \in Files |->
                IF f = 0 THEN piece_new(BackRank[r + 1], TRUE)
                ELSE IF f = 7 THEN piece_new(BackRank[r + 1], FALSE)
                ELSE IF f = 1 THEN piece_new(PIECE_PAWN, TRUE)
                ELSE IF f = 6 THEN piece_new(PIECE_PAWN, FALSE)
                ELSE mem[r][f]]],
     en_passant |-> NULL,
     white_turn |-> TRUE]

\* A block of zero bytes, as a fresh heap gives: every cell NULL.
ZeroMemory == [r \in Ranks |-> [f \in Files |-> NULL]]

\* What the block may hold: zero bytes, or in one cell a pointer left over
\* that is not NULL, to bytes that read as a white pawn (on e4) or as a
\* piece of no type of the enum (on d5).  Dereferencing or freeing such a
\* pointer may also end the process, which adds no state.
FreshMemory ==
    {ZeroMemory,
     [ZeroMemory EXCEPT ![4][3] = piece_new(PIECE_PAWN, TRUE)],
     [ZeroMemory EXCEPT ![3][4] =
        [type |-> "junk", is_white |-> FALSE, has_moved |-> TRUE]]}

(***************************************************************************)
(* game_is_reachable.                                                      *)
(***************************************************************************)
\* The loop of lines 331-335: from (r, f), step by (rank_inc, file_inc)
\* until end is reached; an occupied square on the way gives false.
\* The walk with the occupancy test before the loop test: it looks at the
\* end square too when the walk gets there.
RECURSIVE RayWalk_through_end(_, _, _, _, _, _)
RayWalk_through_end(game, r, f, end, rank_inc, file_inc) ==
    IF game.board[r][f] # NULL THEN FALSE
    ELSE IF ~(r # end.rank \/ f # end.file) THEN TRUE
    ELSE RayWalk_through_end(game, r + rank_inc, f + file_inc, end,
                             rank_inc, file_inc)

RECURSIVE RayWalk(_, _, _, _, _, _)
RayWalk(game, r, f, end, rank_inc, file_inc) ==
    IF ~(r # end.rank \/ f # end.file) THEN TRUE
    ELSE IF game.board[r][f] # NULL THEN FALSE
    ELSE RayWalk(game, r + rank_inc, f + file_inc, end, rank_inc, file_inc)

\* The pawn case without the test of has_moved.
PawnReachable_any_time(game, piece, start, end) ==
    LET rank_diff == abs(end.rank - start.rank)
        inc == IF piece.is_white THEN 1 ELSE -1
    IN  IF rank_diff <= 1 /\ end.file = start.file + inc THEN TRUE
        ELSE IF end.rank = start.rank /\ end.file = start.file + 2 * inc
        THEN game.board[start.rank][start.file + inc] = NULL
        ELSE FALSE

\* The pawn case, lines 286-296.
PawnReachable(game, piece, start, end) ==
    LET rank_diff == abs(end.rank - start.rank)
        inc == IF piece.is_white THEN 1 ELSE -1
    IN  IF rank_diff <= 1 /\ end.file = start.file + inc THEN TRUE
        ELSE IF end.rank = start.rank /\ end.file = start.file + 2 * inc
        THEN ~piece.has_moved
             /\ game.board[start.rank][start.file + inc] = NULL
        ELSE FALSE

game_is_reachable(game, start, end) ==
    LET piece == game.board[start.rank][start.file]
        rank_diff == abs(end.rank - start.rank)
        file_diff == abs(end.file - start.file)
        rank_inc == IF rank_diff = 0 THEN 0
                    ELSE IF end.rank > start.rank THEN 1 ELSE -1
        file_inc == IF file_diff = 0 THEN 0
                    ELSE IF end.file > start.file THEN 1 ELSE -1
        walk == RayWalk(game, start.rank + rank_inc, start.file + file_inc,
                        end, rank_inc, file_inc)
    IN  IF piece = NULL THEN FALSE
        ELSE IF piece.type = PIECE_PAWN
        THEN PawnReachable(game, piece, start, end)
        ELSE IF piece.type = PIECE_KNIGHT THEN
            (rank_diff = 2 /\ file_diff = 1) \/ (rank_diff = 1 /\ file_diff = 2)
        ELSE IF piece.type = PIECE_BISHOP THEN
            IF rank_diff # file_diff THEN FALSE ELSE walk
        ELSE IF piece.type = PIECE_ROOK THEN
            IF rank_diff # 0 /\ file_diff # 0 THEN FALSE ELSE walk
        ELSE IF piece.type = PIECE_QUEEN THEN
            IF rank_diff # file_diff /\ rank_diff # 0 /\ file_diff # 0
            THEN FALSE ELSE walk
        ELSE IF piece.type = PIECE_KING THEN
            rank_diff <= 1 /\ file_diff <= 1
        ELSE \* no case of the switch: control reaches the loop
            walk

(***************************************************************************)
(* game_deduce_start.  The out-parameter start holds the hints (-1 for an  *)
(* unknown coordinate); the result carries the return code, the message    *)
(* printed, the count found and the value of *start on return.             *)
(***************************************************************************)
\* IsCandidate without the test of the piece's colour.
IsCandidate_any_colour(game, type, test_start, end) ==
    LET piece == game.board[test_start.rank][test_start.file]
    IN  /\ piece # NULL
        /\ piece.type = type
        /\ game_is_reachable(game, test_start, end)

\* The test of one candidate square, as in each of the four search loops.
IsCandidate(game, type, test_start, end) ==
    LET piece == game.board[test_start.rank][test_start.file]
    IN  /\ piece # NULL
        /\ piece.type = type
        /\ piece.is_white = game.white_turn
        /\ game_is_reachable(game, test_start, end)

\* One search loop: visits tests[k], tests[k+1], ... in order, counting the
\* candidates in found and keeping the last one in new_start.
RECURSIVE SearchLoop(_, _, _, _, _, _)
SearchLoop(game, type, end, tests, k, acc) ==
    IF k > Len(tests) THEN acc
    ELSE SearchLoop(game, type, end, tests, k + 1,
                    IF IsCandidate(game, type, tests[k], end)
                    THEN [found |-> acc.found + 1, new_start |-> tests[k]]
                    ELSE acc)

\* The squares each branch of game_deduce_start visits, in its order.
SearchOrder(start) ==
    IF start.rank # -1 /\ start.file # -1 THEN <<start>>
    ELSE IF start.rank # -1
    THEN [k \in 1 .. BOARD_FILES |-> Pos(start.rank, k - 1)]
    ELSE IF start.file # -1
    THEN [k \in 1 .. BOARD_RANKS |-> Pos(k - 1, start.file)]
    ELSE [k \in 1 .. (BOARD_RANKS * BOARD_FILES) |->
            Pos((k - 1) \div BOARD_FILES, (k - 1) % BOARD_FILES)]

game_deduce_start(game, type, end, start) ==
    LET \* new_start is uninitialised until a candidate is found; it is read
        \* only when found = 1, after the loop has set both its members.
        acc == SearchLoop(game, type, end, SearchOrder(start), 1,
                          [found |-> 0, new_start |-> Pos(-1, -1)])
    IN  IF acc.found = 0
        THEN [rc |-> 1, err |-> "no_pieces", found |-> acc.found, start |-> start]
        ELSE IF acc.found = 1
        THEN [rc |-> 0, err |-> "none", found |-> acc.found,
              start |-> acc.new_start]
        ELSE [rc |-> 1, err |-> "ambiguous", found |-> acc.found, start |-> start]

(***************************************************************************)
(* game_translate.  alg is the token; At(alg, i) is the character the      *)
(* pointer reads once it has been advanced i - 1 times, the terminating    *)
(* NUL past the last one.                                                  *)
(***************************************************************************)
NUL == "NUL"

At(alg, i) == IF i <= Len(alg) THEN alg[i] ELSE NUL

\* The vertical tab, 0x0B; TLA+ has no escape for it.
VT == ""

\* isspace() of <ctype.h> in the C locale.
isspace(c) == c \in {" ", "\t", "\n", VT, "\f", "\r"}

RankChars == <<"a", "b", "c", "d", "e", "f", "g", "h">>

FileChars == <<"1", "2", "3", "4", "5", "6", "7", "8">>

\* 'a' <= c && c <= 'h', and c - 'a'.
IsRankChar(c) == \E k \in 1 .. BOARD_RANKS : RankChars[k] = c

RankOf(c) == (CHOOSE k \in 1 .. BOARD_RANKS : RankChars[k] = c) - 1

\* '1' <= c && c <= '8', and c - '1'.
IsFileChar(c) == \E k \in 1 .. BOARD_FILES : FileChars[k] = c

FileOf(c) == (CHOOSE k \in 1 .. BOARD_FILES : FileChars[k] = c) - 1

RECURSIVE SkipSpace(_, _)
SkipSpace(alg, i) == IF isspace(At(alg, i)) THEN SkipSpace(alg, i + 1) ELSE i

\* The value of the local promotion when no letter was read into it; it is
\* never copied anywhere.
NoPromotion == "none"

\* What game_translate returns when it fails before game_deduce_start.
ParseError(err, type) ==
    [rc |-> 1, err |-> err, type |-> type, hint |-> Pos(-1, -1),
     end |-> Pos(-1, -1), demanded |-> FALSE, promotion |-> NoPromotion,
     found |-> 0, start |-> Pos(-1, -1)]

\* The result records what the function did: the return code, the message
\* (err), the parsed piece type, the start hints and the destination handed
\* to game_deduce_start, whether the promotion branch was entered
\* (demanded), the local promotion, the count game_deduce_start found and
\* the start it deduced.  The writes to the out-parameter move are MoveOut.
game_translate(game, alg) ==
    LET i0 == SkipSpace(alg, 1)
        c0 == At(alg, i0)
        named == c0 \in {"N", "B", "R", "Q", "K"}
        type == IF named THEN c0 ELSE PIECE_PAWN
        i1 == IF named THEN i0 + 1 ELSE i0
        i2 == IF At(alg, i1) = "x" THEN i1 + 1 ELSE i1
        digit1 == IsFileChar(At(alg, i2))
        sfile1 == IF digit1 THEN FileOf(At(alg, i2)) ELSE -1
        i3 == IF digit1 THEN i2 + 1 ELSE i2
    IN  IF ~IsRankChar(At(alg, i3)) THEN ParseError("expected_rank", type)
        ELSE
        LET erank1 == RankOf(At(alg, i3))
            i4 == i3 + 1
            letter2 == IsRankChar(At(alg, i4))
            srank2 == IF letter2 THEN erank1 ELSE -1
            erank2 == IF letter2 THEN RankOf(At(alg, i4)) ELSE erank1
            i5 == IF letter2 THEN i4 + 1 ELSE i4
        IN  IF ~IsFileChar(At(alg, i5))
            THEN ParseError("expected_file", type)
            ELSE
            LET efile2 == FileOf(At(alg, i5))
                i6 == i5 + 1
                letter3 == IsRankChar(At(alg, i6))
            IN  IF letter3 /\ ~IsFileChar(At(alg, i6 + 1))
                THEN ParseError("expected_file", type)
                ELSE
                LET srank3 == IF letter3 THEN erank2 ELSE srank2
                    erank3 == IF letter3 THEN RankOf(At(alg, i6)) ELSE erank2
                    sfile3 == IF letter3 THEN efile2 ELSE sfile1
                    efile3 == IF letter3 THEN FileOf(At(alg, i6 + 1)) ELSE efile2
                    \* line 408 reads the digit without advancing past it
                    i7 == IF letter3 THEN i6 + 1 ELSE i6
                    start == Pos(srank3, sfile3)
                    end == Pos(erank3, efile3)
                    demanded == /\ type = PIECE_PAWN
                                /\ \/ (game.white_turn /\ end.rank = 7)
                                   \/ (~game.white_turn /\ end.rank = 0)
                    i8 == IF demanded /\ At(alg, i7) = "=" THEN i7 + 1 ELSE i7
                    letter == At(alg, i8)
                    promotion == IF demanded THEN letter ELSE NoPromotion
                IN  IF demanded /\ letter \notin {"N", "B", "R", "Q"}
                    THEN [ParseError("invalid_promotion", type)
                            EXCEPT !.hint = start, !.end = end,
                                   !.demanded = TRUE]
                    ELSE
                    LET d == game_deduce_start(game, type, end, start)
                    IN  [rc |-> d.rc, err |-> d.err, type |-> type,
                         hint |-> start, end |-> end, demanded |-> demanded,
                         promotion |-> promotion, found |-> d.found,
                         start |-> d.start]

\* The out-parameter of game_translate after the call (lines 447-448): move
\* is the caller's struct before it, t the result of game_translate.
MoveOut(move, t) ==
    IF t.rc # 0 THEN move
    ELSE [move EXCEPT !.start = t.start, !.end = t.end]

(***************************************************************************)
(* game_move.  t is what its call of game_translate returned, translated   *)
(* the local struct move after that call.                                  *)
(***************************************************************************)
\* game_move with the turn passed on before the return code is looked at.
game_move_turn_first(game, t, translated) ==
    LET b1 == [game.board EXCEPT ![translated.end.rank][translated.end.file] =
                  game.board[translated.start.rank][translated.start.file]]
        b2 == [b1 EXCEPT ![translated.start.rank][translated.start.file] = NULL]
    IN  IF t.rc # 0
        THEN [rc |-> 1, game |-> [game EXCEPT !.white_turn = ~game.white_turn]]
        ELSE [rc |-> 0,
              game |-> [board |-> b2, en_passant |-> NULL,
                        white_turn |-> ~game.white_turn]]

\* game_move without line 183: the turn stays with the mover.
game_move_no_flip(game, t, translated) ==
    LET b1 == [game.board EXCEPT ![translated.end.rank][translated.end.file] =
                  game.board[translated.start.rank][translated.start.file]]
        b2 == [b1 EXCEPT ![translated.start.rank][translated.start.file] = NULL]
    IN  IF t.rc # 0
        THEN [rc |-> 1, game |-> game]
        ELSE [rc |-> 0,
              game |-> [board |-> b2, en_passant |-> NULL,
                        white_turn |-> game.white_turn]]

game_move(game, t, translated) ==
    LET b1 == [game.board EXCEPT ![translated.end.rank][translated.end.file] =
                  game.board[translated.start.rank][translated.start.file]]
        b2 == [b1 EXCEPT ![translated.start.rank][translated.start.file] = NULL]
    IN  IF t.rc # 0
        THEN [rc |-> 1, game |-> game]
        ELSE [rc |-> 0,
              game |-> [board |-> b2, en_passant |-> NULL,
                        white_turn |-> ~game.white_turn]]

(***************************************************************************)
(* game_destroy: free on every cell, in the order of the two loops, then   *)
(* on the struct game.  Nothing is written; when it returns no piece and   *)
(* no game is left.                                                        *)
(***************************************************************************)
game_destroy(game) ==
    [cells |-> [k \in 1 .. (BOARD_FILES * BOARD_RANKS) |->
                  game.board[(k - 1) \div BOARD_RANKS][(k - 1) % BOARD_RANKS]],
     then |-> "game",
     board |-> [i \in Ranks |-> [j \in Files |-> NULL]]]

(***************************************************************************)
(* The program: main() creates the game and passes every line it reads to  *)
(* game_move, until the line is "quit": then it destroys the game and      *)
(* returns.                                                                *)
(***************************************************************************)
\* Calls of game_move in one run.
MaxCalls == 3

\* The lines read from standard input.
Tokens ==
    { <<"e", "4">>,                        \* pawn, two squares
      <<"d", "5">>,
      <<"e", "6">>,
      <<"a", "3">>,                        \* two pawns can go there
      <<"e", "e", "3">>,                   \* starting rank given
      <<"2", "e", "3">>,                   \* starting file given
      <<"e", "2", "e", "4">>,              \* starting square given
      <<"N", "f", "3">>,
      <<"N", "1", "c", "3">>,
      <<" ", VT, "N", "x", "c", "6", "#">>,  \* blanks, capture mark, trailer
      <<"Q", "d", "4">>,
      <<"R", "a", "1">>,
      <<"B", "c", "4">>,
      <<"h", "3">>,
      <<"a", "6">>,
      <<"h", "4", "=", "Q">>,
      <<"g", "2", "h", "3", "Q">>,
      <<"z", "9">>,
      <<"e", "2", "e">> }

\* The values the promotion member of the uninitialised local struct move
\* may hold: that of no promotion, a piece type, or anything else.
UninitPromotion == {NoPromotion, PIECE_QUEEN, "junk"}

\* The uninitialised struct move; its start and end are written before
\* they are read, its promotion never is.
UninitMoves ==
    {[start |-> Pos(-1, -1), end |-> Pos(-1, -1), promotion |-> u] :
        u \in UninitPromotion}

\* The struct game as one value.
Game == [board |-> board, en_passant |-> en_passant, white_turn |-> white_turn]

Init ==
    /\ \E mem \in FreshMemory :
          /\ board = game_new(mem).board
          /\ white_turn = game_new(mem).white_turn
          /\ en_passant = game_new(mem).en_passant
    /\ last = [op |-> "game_new"]
    /\ calls = 0
    /\ accepted = 0
    /\ relocated = {}

\* One turn of the loop of main(): game_move on the line read.  The local
\* struct move of game_move is uninitialised when game_translate is called.
\* last keeps the call (the line, the return code, what game_translate did
\* and the struct move after it); calls and accepted count the calls and
\* the accepted moves; relocated is the set of squares whose piece was put
\* there by an accepted move.
GameMove(alg) ==
    /\ last.op # "game_destroy"
    /\ calls < MaxCalls
    /\ \E t \in {game_translate(Game, alg)}, uninit \in UninitMoves :
          \E translated \in {MoveOut(uninit, t)} :
             \E r \in {game_move(Game, t, translated)} :
                /\ board' = r.game.board
                /\ white_turn' = r.game.white_turn
                /\ en_passant' = r.game.en_passant
                /\ last' = [op |-> "game_move", alg |-> alg, rc |-> r.rc,
                            t |-> t, move |-> translated]
                /\ accepted' = IF r.rc = 0 THEN accepted + 1 ELSE accepted
                /\ relocated' =
                      IF r.rc # 0 THEN relocated
                      ELSE {p \in (relocated \ {translated.start})
                                      \cup {translated.end} :
                              r.game.board[p.rank][p.file] # NULL}
    /\ calls' = calls + 1

\* The line read is "quit": main() leaves its loop, calls game_destroy and
\* returns.  last keeps the pointers passed to free, in order; the board
\* holds no piece any more, and no step follows.
GameDestroy ==
    /\ last.op # "game_destroy"
    /\ \E d \in {game_destroy(Game)} :
          /\ board' = d.board
          /\ last' = [op |-> "game_destroy", cells |-> d.cells,
                      then |-> d.then]
    /\ relocated' = {}
    /\ UNCHANGED <<white_turn, en_passant, calls, accepted>>

Next ==
    \/ \E alg \in Tokens : GameMove(alg)
    \/ GameDestroy

Spec == Init /\ [][Next]_vars

(***************************************************************************)
(* Properties of the game (specification Spec).                            *)
(***************************************************************************)
\* The last step was a call of game_move.
Called == last.op = "game_move"

\* C1: a call of game_move that fails, for whatever reason, leaves the
\* board (every cell, with its has_moved flag), white_turn and en_passant
\* as they were.
C1_NoMutationOnFailure ==
    [][(last'.op = "game_move" /\ last'.rc # 0)
         => /\ board' = board
            /\ white_turn' = white_turn
            /\ en_passant' = en_passant]_vars

\* A call failed as ambiguous after some move had been accepted.
C1_Witness ==
    Called /\ last.rc # 0 /\ last.t.err = "ambiguous" /\ accepted > 0

\* The squares that match the hints, hold a piece of the type and of the
\* colour to move, and from which end is reachable.
CandidateSet(game, type, end, hint) ==
    {s \in Squares :
        /\ hint.rank = -1 \/ s.rank = hint.rank
        /\ hint.file = -1 \/ s.file = hint.file
        /\ game.board[s.rank][s.file] # NULL
        /\ game.board[s.rank][s.file].type = type
        /\ game.board[s.rank][s.file].is_white = game.white_turn
        /\ game_is_reachable(game, s, end)}

\* C3: a promotion letter is demanded exactly for a pawn whose destination
\* digit is the last one for the mover (index 7 for white, 0 for black);
\* off that line no token fails for its promotion letter, on it every token
\* without one of N, B, R, Q does.
C3_PromotionOnLastFile ==
    [][(last'.op = "game_move"
          /\ last'.t.err \notin {"expected_rank", "expected_file"})
         => \A on_line \in
                 {/\ last'.t.type = PIECE_PAWN
                  /\ \/ (white_turn /\ last'.t.end.file = 7)
                     \/ (~white_turn /\ last'.t.end.file = 0)} :
               /\ last'.t.demanded <=> on_line
               /\ ~on_line => last'.t.err # "invalid_promotion"
               /\ on_line => \/ last'.t.err = "invalid_promotion"
                             \/ last'.t.promotion \in {"N", "B", "R", "Q"}]_vars

\* C4: an accepted move puts the piece of start on end, empties start,
\* and changes no other square.
C4_MoveFrame ==
    [][(last'.op = "game_move" /\ last'.rc = 0)
         => \A s \in {last'.move.start}, e \in {last'.move.end} :
               /\ board[s.rank][s.file] # NULL
               /\ board'[e.rank][e.file].type = board[s.rank][s.file].type
               /\ board'[e.rank][e.file].is_white
                     = board[s.rank][s.file].is_white
               /\ s # e => board'[s.rank][s.file] = NULL
               /\ \A q \in Squares \ {s, e} :
                     board'[q.rank][q.file] = board[q.rank][q.file]]_vars

\* C5: every piece relocated by an accepted move has has_moved set, and no
\* pawn that was relocated is resolved for a two-square advance.
C5_RelocatedHasMoved ==
    /\ [](\A p \in relocated : board[p.rank][p.file].has_moved)
    /\ [][(last'.op = "game_move" /\ last'.rc = 0
             /\ last'.t.type = PIECE_PAWN
             /\ abs(last'.move.end.file - last'.move.start.file) = 2)
            => last'.move.start \notin relocated]_vars

\* C6: the turn is white's iff the number of accepted moves is even,
\* en_passant is always NULL, and every accepted move flips the turn.
C6_TurnAlternates ==
    /\ []((white_turn <=> accepted % 2 = 0) /\ en_passant = NULL)
    /\ [][(last'.op = "game_move" /\ last'.rc = 0)
            => (white_turn' = ~white_turn /\ en_passant' = NULL)]_vars

\* Two moves were accepted and a call failed.
C6_Witness == accepted = 2 /\ calls > accepted /\ white_turn

\* C10: after a successful game_translate the move holds the deduced start,
\* the parsed destination, and as promotion the letter read, or none when
\* none was read.
C10_MoveComplete ==
    (Called /\ last.rc = 0)
        => /\ last.move.start = last.t.start
           /\ last.move.end = last.t.end
           /\ last.move.promotion = last.t.promotion

(***************************************************************************)
(* game_is_reachable on its own (specification SpecReach).  struct game    *)
(* and struct piece are public (chess.h), so the function is applied to    *)
(* boards a caller can hold: one piece under test on one of a few squares, *)
(* with or without has_moved, and up to MaxBlockers other pieces.          *)
(***************************************************************************)
MaxBlockers == 2

\* d4, a1, e7
SubjectSquares == {Pos(3, 3), Pos(0, 0), Pos(4, 6)}

SubjectPieces ==
    {[type |-> PIECE_PAWN, is_white |-> w, has_moved |-> m] :
        w \in BOOLEAN, m \in BOOLEAN}
    \cup {piece_new(type, TRUE) : type \in PieceTypes \ {PIECE_PAWN}}

\* d5, d3, d6, e5, f6, c4, b2, a2, e6, g7
BlockerSquares ==
    {Pos(3, 4), Pos(3, 2), Pos(3, 5), Pos(4, 4), Pos(5, 5), Pos(2, 3),
     Pos(1, 1), Pos(0, 1), Pos(4, 5), Pos(6, 6)}

BlockerSets == {B \in SUBSET BlockerSquares : Cardinality(B) <= MaxBlockers}

PlaceBoard(subject, at, blockers) ==
    [r \in Ranks |->
        [f \in Files |->
            IF Pos(r, f) = at THEN subject
            ELSE IF Pos(r, f) \in blockers THEN piece_new(PIECE_KNIGHT, FALSE)
            ELSE NULL]]

ReachBoards ==
    {game_new(ZeroMemory).board}
    \cup {PlaceBoard(subject, at, blockers) :
            subject \in SubjectPieces, at \in SubjectSquares,
            blockers \in BlockerSets}

InitReach ==
    /\ board \in ReachBoards
    /\ white_turn = TRUE
    /\ en_passant = NULL
    /\ last = [op |-> "board"]
    /\ calls = 0
    /\ accepted = 0
    /\ relocated = {}

\* One call of game_is_reachable.
ReachCall(start, end) ==
    /\ last' = [op |-> "game_is_reachable", start |-> start, end |-> end,
                result |-> game_is_reachable(Game, start, end)]
    /\ UNCHANGED <<board, white_turn, en_passant, calls, accepted, relocated>>

\* The function changes nothing, so one call a run shows all there is.
NextReach ==
    /\ last.op = "board"
    /\ \E start \in SubjectSquares, end \in Squares : ReachCall(start, end)

SpecReach == InitReach /\ [][NextReach]_vars

\* The last step was a call of game_is_reachable from a square holding a
\* piece of one of the types.
Reached(types) ==
    /\ last.op = "game_is_reachable"
    /\ board[last.start.rank][last.start.file] # NULL
    /\ board[last.start.rank][last.start.file].type \in types

\* s and e are distinct squares of one rank, one file or one diagonal.
OnLine(s, e) ==
    /\ s # e
    /\ \/ s.rank = e.rank
       \/ s.file = e.file
       \/ abs(e.rank - s.rank) = abs(e.file - s.file)

\* The squares strictly between s and e on the line that connects them.
Between(s, e) ==
    {q \in Squares \ {s, e} :
        /\ OnLine(s, e)
        /\ (q.rank - s.rank) * (e.file - s.file)
              = (q.file - s.file) * (e.rank - s.rank)
        /\ (s.rank <= q.rank /\ q.rank <= e.rank)
              \/ (e.rank <= q.rank /\ q.rank <= s.rank)
        /\ (s.file <= q.file /\ q.file <= e.file)
              \/ (e.file <= q.file /\ q.file <= s.file)}

\* The displacement a bishop, a rook or a queen may make.
BishopShape(s, e) ==
    abs(e.rank - s.rank) = abs(e.file - s.file) /\ e.rank # s.rank

RookShape(s, e) == (e.rank = s.rank) # (e.file = s.file)

Shape(type, s, e) ==
    IF type = PIECE_BISHOP THEN BishopShape(s, e)
    ELSE IF type = PIECE_ROOK THEN RookShape(s, e)
    ELSE BishopShape(s, e) \/ RookShape(s, e)

Occupied(q) == board[q.rank][q.file] # NULL

\* C7: for a bishop, rook or queen, an occupied square strictly between
\* start and end makes end unreachable; with the piece's shape and every
\* square between empty, end is reachable whatever stands on it.
C7_RayClear ==
    Reached({PIECE_BISHOP, PIECE_ROOK, PIECE_QUEEN})
        => \A B \in {Between(last.start, last.end)} :
              /\ (\E q \in B : Occupied(q)) => ~last.result
              /\ (/\ Shape(board[last.start.rank][last.start.file].type,
                           last.start, last.end)
                  /\ \A q \in B : ~Occupied(q))
                    => last.result

\* End is occupied, two or more empty squares lie between, and the piece
\* reaches it.
C7_Witness ==
    /\ Reached({PIECE_BISHOP, PIECE_ROOK, PIECE_QUEEN})
    /\ Occupied(last.end)
    /\ Cardinality(Between(last.start, last.end)) >= 2
    /\ last.result

\* C8: for a pawn, end is reachable iff it is one step ahead on the same or
\* a neighbouring rank, or two steps ahead on the same rank with has_moved
\* false and the square stepped over empty.
C8_PawnRule ==
    Reached({PIECE_PAWN})
        => \A s \in {last.start}, e \in {last.end},
              dir \in {IF board[last.start.rank][last.start.file].is_white
                       THEN 1 ELSE -1} :
              last.result
                <=> \/ abs(e.rank - s.rank) <= 1 /\ e.file = s.file + dir
                    \/ /\ e.rank = s.rank
                       /\ e.file = s.file + 2 * dir
                       /\ ~board[s.rank][s.file].has_moved
                       /\ ~Occupied(Pos(s.rank, s.file + dir))

\* A pawn that has moved is asked for two squares ahead over an empty
\* square, and is refused.
C8_Witness ==
    /\ Reached({PIECE_PAWN})
    /\ board[last.start.rank][last.start.file].has_moved
    /\ board[last.start.rank][last.start.file].is_white
    /\ last.end = Pos(last.start.rank, last.start.file + 2)
    /\ ~Occupied(Pos(last.start.rank, last.start.file + 1))
    /\ ~last.result

\* C9: a bishop, rook or queen reaches end only by a displacement of its
\* shape, which is never the null one: its own square is not reachable.
C9_ShapeNonzero ==
    (Reached({PIECE_BISHOP, PIECE_ROOK, PIECE_QUEEN}) /\ last.result)
        => Shape(board[last.start.rank][last.start.file].type,
                 last.start, last.end)

(***************************************************************************)
(* game_deduce_start on its own (specification SpecDeduce): applied, with  *)
(* every piece type, destination and pair of hints, to the positions the   *)
(* program is in after a few lines of input.                               *)
(***************************************************************************)
\* The game after game_move on toks[k], toks[k+1], ... in turn.
RECURSIVE Play(_, _, _)
Play(game, toks, k) ==
    IF k > Len(toks) THEN game
    ELSE CHOOSE after \in
            {Play(game_move(game, t, MoveOut(CHOOSE u \in UninitMoves : TRUE,
                                             t)).game,
                  toks, k + 1) :
                t \in {game_translate(game, toks[k])}} : TRUE

Openings ==
    { <<>>,
      << <<"N", "c", "3">> >>,
      << <<"N", "c", "3">>, <<"e", "5">> >>,
      << <<"e", "4">>, <<"d", "5">>, <<"d", "5">>, <<"Q", "d", "5">> >>,
      << <<"e", "4">>, <<"e", "5">>, <<"B", "c", "4">>, <<"B", "c", "5">>,
         <<"Q", "h", "5">> >>,
      << <<"a", "4">>, <<"h", "5">>, <<"R", "a", "3">>, <<"R", "h", "6">>,
         <<"R", "e", "3">>, <<"R", "a", "6">> >> }

\* The start hints: each coordinate known or -1.
Hints == {Pos(r, f) : r \in Ranks \cup {-1}, f \in Files \cup {-1}}

InitDeduce ==
    /\ \E toks \in Openings :
          \E g \in {Play(game_new(ZeroMemory), toks, 1)} :
             /\ board = g.board
             /\ white_turn = g.white_turn
             /\ en_passant = g.en_passant
    /\ last = [op |-> "board"]
    /\ calls = 0
    /\ accepted = 0
    /\ relocated = {}

\* One call of game_deduce_start; it changes nothing but *start.
DeduceCall(type, end, start) ==
    /\ last' = [op |-> "game_deduce_start", type |-> type, end |-> end,
                hint |-> start,
                d |-> game_deduce_start(Game, type, end, start)]
    /\ UNCHANGED <<board, white_turn, en_passant, calls, accepted, relocated>>

\* The function changes nothing, so one call a run shows all there is.
NextDeduce ==
    /\ last.op = "board"
    /\ \E type \in PieceTypes, end \in Squares, start \in Hints :
          DeduceCall(type, end, start)

SpecDeduce == InitDeduce /\ [][NextDeduce]_vars

\* C2: game_deduce_start succeeds iff exactly one square is a candidate, and
\* returns it as start; it reports "no pieces" iff none is, and "ambiguous"
\* with their number iff several are.
C2_DeduceUnique ==
    last.op = "game_deduce_start"
        => \A C \in {CandidateSet(Game, last.type, last.end, last.hint)} :
              /\ (last.d.rc = 0) <=> (Cardinality(C) = 1)
              /\ (last.d.rc = 0) => C = {last.d.start}
              /\ (last.d.err = "no_pieces") <=> (Cardinality(C) = 0)
              /\ (last.d.err = "ambiguous") <=> (Cardinality(C) > 1)
              /\ (last.d.err = "ambiguous") => last.d.found = Cardinality(C)

\* A rank hint alone picks one of several pieces that reach the destination.
C2_Witness ==
    /\ last.op = "game_deduce_start"
    /\ last.d.rc = 0
    /\ last.hint.rank # -1 /\ last.hint.file = -1
    /\ Cardinality(CandidateSet(Game, last.type, last.end, Pos(-1, -1))) > 1

(***************************************************************************)
(* The subscripts of game->board evaluated while a move is resolved.  Each *)
(* read of game->board[r][f] is recorded as the pair (r, f), whether it    *)
(* is in the array or not; a read outside it is undefined behaviour, and   *)
(* the record of a walk ends with it.                                      *)
(***************************************************************************)
InBoard(q) == q.rank \in Ranks /\ q.file \in Files

NoWalk == [reads |-> {}, stop |-> "none"]

\* The walk with the read before the loop test: it reads the end square too.
RECURSIVE RayWalkReads_read_first(_, _, _, _, _, _, _)
RayWalkReads_read_first(game, r, f, end, rank_inc, file_inc, reads) ==
    IF ~InBoard(Pos(r, f))
    THEN [reads |-> reads \cup {Pos(r, f)}, stop |-> "off_board"]
    ELSE IF game.board[r][f] # NULL
    THEN [reads |-> reads \cup {Pos(r, f)}, stop |-> "blocked"]
    ELSE IF ~(r # end.rank \/ f # end.file)
    THEN [reads |-> reads \cup {Pos(r, f)}, stop |-> "end"]
    ELSE RayWalkReads_read_first(game, r + rank_inc, f + file_inc, end,
                                 rank_inc, file_inc, reads \cup {Pos(r, f)})

\* The reads of the loop of lines 331-335 and the way it ends: on reaching
\* end, on an occupied square, or on a read outside the array.
RECURSIVE RayWalkReads(_, _, _, _, _, _, _)
RayWalkReads(game, r, f, end, rank_inc, file_inc, reads) ==
    IF ~(r # end.rank \/ f # end.file)
    THEN [reads |-> reads, stop |-> "end"]
    ELSE IF ~InBoard(Pos(r, f))
    THEN [reads |-> reads \cup {Pos(r, f)}, stop |-> "off_board"]
    ELSE IF game.board[r][f] # NULL
    THEN [reads |-> reads \cup {Pos(r, f)}, stop |-> "blocked"]
    ELSE RayWalkReads(game, r + rank_inc, f + file_inc, end,
                      rank_inc, file_inc, reads \cup {Pos(r, f)})

\* The read of the pawn case, lines 286-296: the second operand of && is
\* evaluated only when the first is true.
PawnReads(piece, start, end) ==
    LET rank_diff == abs(end.rank - start.rank)
        inc == IF piece.is_white THEN 1 ELSE -1
    IN  IF rank_diff <= 1 /\ end.file = start.file + inc THEN {}
        ELSE IF end.rank = start.rank /\ end.file = start.file + 2 * inc
        THEN IF ~piece.has_moved
             THEN {Pos(start.rank, start.file + inc)} ELSE {}
        ELSE {}

\* The reads of one call of game_is_reachable after that of its first
\* line: the pawn's, and the walk's when control reaches the loop.
game_is_reachable_reads(game, start, end) ==
    LET piece == game.board[start.rank][start.file]
        rank_diff == abs(end.rank - start.rank)
        file_diff == abs(end.file - start.file)
        rank_inc == IF rank_diff = 0 THEN 0
                    ELSE IF end.rank > start.rank THEN 1 ELSE -1
        file_inc == IF file_diff = 0 THEN 0
                    ELSE IF end.file > start.file THEN 1 ELSE -1
        walk == RayWalkReads(game, start.rank + rank_inc,
                             start.file + file_inc, end, rank_inc, file_inc,
                             {})
        none == [start |-> start, pawn |-> {}, walk |-> NoWalk]
    IN  IF piece = NULL THEN none
        ELSE IF piece.type = PIECE_PAWN
        THEN [none EXCEPT !.pawn = PawnReads(piece, start, end)]
        ELSE IF piece.type = PIECE_KNIGHT THEN none
        ELSE IF piece.type = PIECE_BISHOP THEN
            IF rank_diff # file_diff THEN none
            ELSE [none EXCEPT !.walk = walk]
        ELSE IF piece.type = PIECE_ROOK THEN
            IF rank_diff # 0 /\ file_diff # 0 THEN none
            ELSE [none EXCEPT !.walk = walk]
        ELSE IF piece.type = PIECE_QUEEN THEN
            IF rank_diff # file_diff /\ rank_diff # 0 /\ file_diff # 0
            THEN none ELSE [none EXCEPT !.walk = walk]
        ELSE IF piece.type = PIECE_KING THEN none
        ELSE [none EXCEPT !.walk = walk]

\* The reads of one call of game_deduce_start: the squares its branch
\* tests, and the calls of game_is_reachable it makes, one for each tested
\* square whose piece passes the three tests before it.
game_deduce_start_reads(game, type, end, start) ==
    LET tests == SearchOrder(start)
        tested == {tests[k] : k \in 1 .. Len(tests)}
    IN  [tested |-> tested,
         calls |->
            {game_is_reachable_reads(game, q, end) :
                q \in {t \in tested :
                        /\ InBoard(t)
                        /\ game.board[t.rank][t.file] # NULL
                        /\ game.board[t.rank][t.file].type = type
                        /\ game.board[t.rank][t.file].is_white
                              = game.white_turn}}]

\* C11: every subscript of the board evaluated while game_deduce_start
\* resolves a move is in 0..7.  The pawn's double-advance test reads only
\* the square between start and end; the walk of a bishop, rook or queen
\* never leaves the board, reads only squares strictly between start and
\* end, and has read them all when it stops on reaching end; and on success
\* both coordinates of start are in 0..7, as the two asserts of
\* game_translate require.
C11_ReadsInBoard ==
    last.op = "game_deduce_start"
        => \A T \in {game_deduce_start_reads(Game, last.type, last.end,
                                             last.hint)} :
              /\ \A q \in T.tested : InBoard(q)
              /\ \A c \in T.calls :
                    \A B \in {Between(c.start, last.end)} :
                       /\ InBoard(c.start)
                       /\ c.pawn \subseteq B
                       /\ \A q \in c.pawn \cup c.walk.reads : InBoard(q)
                       /\ c.walk.stop # "off_board"
                       /\ c.walk.reads \subseteq B
                       /\ c.walk.stop = "end" => c.walk.reads = B
              /\ last.d.rc = 0 => InBoard(last.d.start)

\* A search of the whole board that succeeds, after a walk over two or more
\* squares that stopped on reaching end.
C11_Witness ==
    /\ last.op = "game_deduce_start"
    /\ last.hint = Pos(-1, -1)
    /\ last.d.rc = 0
    /\ \E c \in game_deduce_start_reads(Game, last.type, last.end,
                                        last.hint).calls :
          /\ c.start = last.d.start
          /\ c.walk.stop = "end"
          /\ Cardinality(c.walk.reads) >= 2

====
